---- MODULE Spec2Model ----
(***************************************************************************)
(* State-machine model of the url-shortener (src/main.go): the redis      *)
(* key space, the HTTP handlers that act on it (create, slug redirect,    *)
(* slug details, index sample) and the passage of time that expires keys. *)
(* Every redis command is one atomic step; commands of one pipeline are   *)
(* sent together but executed one by one, so other requests interleave.   *)
(***************************************************************************)
EXTENDS Integers, Sequences, FiniteSets, TLC

VARIABLES db, wk, wins, age, nres, quiet, sl

vars == <<db, wk, wins, age, nres, quiet, sl>>

(* ------------------------------ bounds -------------------------------- *)
NumWorkers == 2
NumSlugs == 2
\* slugs that concurrent requests contend on
NumHotSlugs == 1
NumTargets == 2
MaxClicks == 2

\* strides of the sampled outcomes of the random source
MaxStride == 2
\* longest candidate string given to slugIsValid
MaxCandLen == 3

Workers == 1..NumWorkers
Targets == 1..NumTargets

(* --------------------------- program constants ------------------------ *)
\* default_ttl ("1h"), counted in clock ticks
default_ttl == 2
\* attempt < 10 in store
MaxAttempts == 10
\* the COUNT argument of Scan in sampleExisting
ScanCount == 10

\* the alphabet of slugs, one string per character
runes == <<"a", "b", "c", "d", "e", "f", "g", "h", "j", "k", "l", "m", "n", "p",
           "q", "r", "s", "t", "u", "v", "w", "x", "y", "z",
           "A", "B", "C", "D", "E", "F", "G", "H", "J", "K", "L", "M", "N", "P",
           "Q", "R", "S", "T", "U", "V", "W", "X", "Y", "Z",
           "1", "2", "3", "4", "5", "6", "7", "8", "9", "0">>

\* const length in randomSlug
length == 8

\* randomSlug filling one byte too few
randomSlug_short(pick) == [i \in 1..(length - 1) |-> runes[pick[i] + 1]]

\* randomSlug, pick[i] being the outcome of the i-th rand.Intn(len(runes))
randomSlug(pick) == [i \in 1..length |-> runes[pick[i] + 1]]

\* strings.Contains(str, c) for a one-character c
Contains(str, c) == \E i \in 1..Len(str) : str[i] = c

\* slugIsValid looking at the first character only
slugIsValid_first(slug) == slug = <<>> \/ Contains(runes, Head(slug))

\* slugIsValid asking for the generated length as well
slugIsValid_len(slug) ==
    Len(slug) = length /\ \A i \in 1..Len(slug) : Contains(runes, slug[i])

RECURSIVE slugIsValid(_)
slugIsValid(slug) == IF slug = <<>> THEN TRUE
                     ELSE IF ~Contains(runes, Head(slug)) THEN FALSE
                     ELSE slugIsValid(Tail(slug))

\* the slugs of the model: randomSlug on the n-th constant outcome
SlugPick(n) == [i \in 1..length |-> n - 1]

Slugs == {randomSlug(SlugPick(n)) : n \in 1..NumSlugs}

HotSlugs == {randomSlug(SlugPick(n)) : n \in 1..NumHotSlugs}

\* target.Val() of a Get that found nothing: the empty string
EmptyString == 0
\* redis TTL replies: -1 for a key without expiry, -2 for a missing key
NoExpiry == -1
NoSuchKey == -2

(* ------------------------------ key names ----------------------------- *)
keyOfSlug(slug) == <<"url", slug>>

keyOfSlugHitCount(slug) == <<"urlhitcount", slug>>

\* strings.SplitN(key, ":", 2): the part after the first separator
slugFromKey(key) == IF Len(key) = 2 THEN [err |-> FALSE, slug |-> key[2]]
                    ELSE [err |-> TRUE, slug |-> <<>>]

Keys == {keyOfSlug(s) : s \in Slugs} \cup {keyOfSlugHitCount(s) : s \in Slugs}

(* ---------------------------- redis commands -------------------------- *)
Exists(d, k) == k \in DOMAIN d

Put(d, k, v, t) == [x \in DOMAIN d \cup {k} |->
                      IF x = k THEN [val |-> v, ttl |-> t] ELSE d[x]]

\* SetNX degraded to a plain Set
SetNX_overwrites(d, k, v, t) == [ok |-> TRUE, db |-> Put(d, k, v, t)]

\* SetNX that reports the collision but has written the value
SetNX_clobbers(d, k, v, t) == [ok |-> ~Exists(d, k), db |-> Put(d, k, v, t)]

\* SetNX without the expiry argument
SetNX_persistent(d, k, v, t) == IF Exists(d, k) THEN [ok |-> FALSE, db |-> d]
                                ELSE [ok |-> TRUE, db |-> Put(d, k, v, -1)]

RedisSetNX(d, k, v, t) == IF Exists(d, k) THEN [ok |-> FALSE, db |-> d]
                          ELSE [ok |-> TRUE, db |-> Put(d, k, v, t)]

RedisGet(d, k) == IF Exists(d, k) THEN [nil |-> FALSE, val |-> d[k].val]
                  ELSE [nil |-> TRUE, val |-> EmptyString]

RedisIncrBy(d, k, n) == IF Exists(d, k)
                        THEN [val |-> d[k].val + n, db |-> Put(d, k, d[k].val + n, d[k].ttl)]
                        ELSE [val |-> n, db |-> Put(d, k, n, NoExpiry)]

RedisTTL(d, k) == IF Exists(d, k) THEN d[k].ttl ELSE NoSuchKey

RedisExpire(d, k, t) == IF Exists(d, k) THEN Put(d, k, d[k].val, t) ELSE d

\* keys matching the pattern "url:*"
RedisScan(d) == {k \in DOMAIN d : k[1] = "url"}

RECURSIVE Orderings(_)
Orderings(S) == IF S = {} THEN {<<>>}
                ELSE UNION {{<<x>> \o q : q \in Orderings(S \ {x})} : x \in S}

\* a Scan reply: some of the matching keys, at most ScanCount, in any order
ScanReplies(d) == UNION {Orderings(T) :
                     T \in {U \in SUBSET RedisScan(d) : Cardinality(U) <= ScanCount}}

\* one clock tick: keys whose remaining life ends are removed
Expired(d) == {k \in DOMAIN d : d[k].ttl = 1}

RedisTick(d) == [k \in DOMAIN d \ Expired(d) |->
                   IF d[k].ttl = NoExpiry THEN d[k]
                   ELSE [val |-> d[k].val, ttl |-> d[k].ttl - 1]]

(* ------------------------------ workers ------------------------------- *)
Idle == [pc |-> "idle", slug |-> <<>>, target |-> EmptyString, attempt |-> 0,
         nil |-> FALSE, neterr |-> FALSE, counter |-> 0, ttl |-> 0, keys |-> <<>>, r |-> <<>>,
         res |-> "none"]


ShortUrl(slug, target, clicks, ttl) ==
    [Slug |-> slug, Target |-> target, Clicks |-> clicks, Ttl |-> ttl]

Min(a, b) == IF a < b THEN a ELSE b

Alive(d, s) == Exists(d, keyOfSlug(s))

\* the hit count a reader of slug s sees: the counter key's value, 0 if absent
ClicksOf(d, s) == IF Exists(d, keyOfSlugHitCount(s)) THEN d[keyOfSlugHitCount(s)].val ELSE 0

\* no call of a slug function on its own has been made
NoCall == [op |-> "none", pick |-> <<>>, slug |-> <<>>, valid |-> FALSE]

Init == /\ db = [k \in {} |-> 0]
        /\ wk = [w \in Workers |-> Idle]
        /\ wins = [s \in Slugs |-> 0]
        /\ age = [s \in Slugs |-> default_ttl]
        /\ nres = [s \in Slugs |-> 0]
        /\ quiet = [s \in Slugs |-> default_ttl]
        /\ sl = NoCall

(* ---------------------- POST /_create : store ------------------------- *)
CreateRequest(w, t) ==
    /\ wk[w].pc = "idle"
    /\ wk' = [wk EXCEPT ![w] = [Idle EXCEPT !.pc = "store", !.target = t]]
    /\ UNCHANGED <<db, wins, age, nres, quiet, sl>>

\* the loop condition of store
LoopOffByOne(attempt) == attempt <= MaxAttempts

LoopContinues(attempt) == attempt < MaxAttempts

\* one iteration of the loop of store: randomSlug picks s, SetNX is sent;
\* up = FALSE is a transport error of the command (err # nil)
StoreAttempt(w, s, up) ==
    /\ wk[w].pc = "store"
    /\ LoopContinues(wk[w].attempt)
    /\ LET reply == IF up THEN RedisSetNX(db, keyOfSlug(s), wk[w].target, default_ttl)
                     ELSE [ok |-> FALSE, db |-> db]
           success == up /\ reply.ok
       IN /\ db' = reply.db
          /\ IF success
             THEN /\ wk' = [wk EXCEPT ![w] = [@ EXCEPT !.pc = "done", !.res = "created",
                                                       !.slug = s, !.counter = 0,
                                                       !.ttl = default_ttl]]
                  /\ wins' = [wins EXCEPT ![s] = @ + 1]
                  /\ age' = [age EXCEPT ![s] = 0]
                  /\ nres' = [nres EXCEPT ![s] = 0]
                  /\ quiet' = [quiet EXCEPT ![s] = 0]
                  /\ UNCHANGED sl
             ELSE /\ wk' = [wk EXCEPT ![w] =
                              IF LoopContinues(wk[w].attempt + 1)
                              THEN [@ EXCEPT !.attempt = @ + 1,
                                             !.neterr = @ \/ ~up]
                              ELSE [@ EXCEPT !.attempt = @ + 1, !.pc = "done",
                                             !.neterr = @ \/ ~up,
                                             !.res = "exhausted"]]
                  /\ UNCHANGED <<wins, age, nres, quiet, sl>>

(* ------------------------- GET /{slug} -------------------------------- *)
\* the slug handler counting the hit before it looks the slug up
SlugGet_counts_first(w, s, details) ==
    /\ wk[w].pc = "idle"
    /\ ClicksOf(db, s) < MaxClicks
    /\ LET reply == RedisGet(db, keyOfSlug(s))
       IN /\ wk' = [wk EXCEPT ![w] =
                     IF reply.nil
                     THEN [Idle EXCEPT !.pc = "done", !.res = "notfound", !.slug = s,
                                       !.nil = TRUE]
                     ELSE [Idle EXCEPT !.pc = IF details THEN "det_incrby" ELSE "hit_incr",
                                       !.slug = s, !.target = reply.val]]
          /\ db' = RedisIncrBy(db, keyOfSlugHitCount(s), 1).db
    /\ UNCHANGED <<wins, age, nres, quiet, sl>>

\* the characters of the route pattern [0-9A-Za-z]
Alnum == {"a", "b", "c", "d", "e", "f", "g", "h", "i", "j", "k", "l", "m",
          "n", "o", "p", "q", "r", "s", "t", "u", "v", "w", "x", "y", "z",
          "A", "B", "C", "D", "E", "F", "G", "H", "I", "J", "K", "L", "M",
          "N", "O", "P", "Q", "R", "S", "T", "U", "V", "W", "X", "Y", "Z",
          "0", "1", "2", "3", "4", "5", "6", "7", "8", "9"}

\* the route "/{slug:[0-9A-Za-z]+}"
RouteMatches(path) == path # <<>> /\ \A i \in 1..Len(path) : path[i] \in Alnum

\* request paths that no create has produced
ForeignSlugs == {<<"a">>, <<"i">>, <<"a", "O">>, <<"a", ":", "b">>}

\* the slug handler up to its Get, for the redirect (details = FALSE) or the
\* details view (details = TRUE); a path the route does not match gets the
\* router's 404
SlugGet(w, s, details) ==
    /\ wk[w].pc = "idle"
    /\ LET reply == RedisGet(db, keyOfSlug(s))
       IN /\ wk' = [wk EXCEPT ![w] =
                     IF ~RouteMatches(s)
                     THEN [Idle EXCEPT !.pc = "done", !.res = "nomatch", !.slug = s]
                     ELSE IF ~slugIsValid(s)
                     THEN [Idle EXCEPT !.pc = "done", !.res = "invalid", !.slug = s]
                     ELSE IF reply.nil
                     THEN [Idle EXCEPT !.pc = "done", !.res = "notfound", !.slug = s,
                                       !.nil = TRUE]
                     ELSE [Idle EXCEPT !.pc = IF details THEN "det_incrby" ELSE "hit_incr",
                                       !.slug = s, !.target = reply.val]]
          /\ quiet' = IF RouteMatches(s) /\ slugIsValid(s) /\ ~reply.nil /\ ~details
                      THEN [quiet EXCEPT ![s] = 0] ELSE quiet
    /\ UNCHANGED <<db, wins, age, nres, sl>>

DetIncrBy(w) ==
    /\ wk[w].pc = "det_incrby"
    /\ LET reply == RedisIncrBy(db, keyOfSlugHitCount(wk[w].slug), 0)
       IN /\ db' = reply.db
          /\ wk' = [wk EXCEPT ![w] = [@ EXCEPT !.pc = "det_ttl", !.counter = reply.val]]
    /\ UNCHANGED <<wins, age, nres, quiet, sl>>

\* the details view refreshing the expiry as the redirect does
DetTTL_refreshes(w) ==
    /\ wk[w].pc = "det_ttl"
    /\ db' = RedisExpire(db, keyOfSlug(wk[w].slug), default_ttl)
    /\ wk' = [wk EXCEPT ![w] = [@ EXCEPT !.pc = "done", !.res = "details",
                                         !.ttl = RedisTTL(db', keyOfSlug(wk[w].slug))]]
    /\ UNCHANGED <<wins, age, nres, quiet, sl>>

DetTTL(w) ==
    /\ wk[w].pc = "det_ttl"
    /\ wk' = [wk EXCEPT ![w] = [@ EXCEPT !.pc = "done", !.res = "details",
                                         !.ttl = RedisTTL(db, keyOfSlug(wk[w].slug))]]
    /\ UNCHANGED <<db, wins, age, nres, quiet, sl>>

HitIncr(w) ==
    /\ wk[w].pc = "hit_incr"
    /\ ClicksOf(db, wk[w].slug) < MaxClicks
    /\ LET s == wk[w].slug
           reply == RedisIncrBy(db, keyOfSlugHitCount(s), 1)
       IN /\ db' = reply.db
          /\ wk' = [wk EXCEPT ![w] = [@ EXCEPT !.pc = "hit_expc", !.counter = reply.val]]
          /\ nres' = IF Alive(db, s)
                     THEN [nres EXCEPT ![s] = Min(@ + 1, MaxClicks + 1)]
                     ELSE nres
          /\ quiet' = [quiet EXCEPT ![s] = 0]
    /\ UNCHANGED <<wins, age, sl>>

HitExpireCounter(w) ==
    /\ wk[w].pc = "hit_expc"
    /\ db' = RedisExpire(db, keyOfSlugHitCount(wk[w].slug), default_ttl)
    /\ wk' = [wk EXCEPT ![w] = [@ EXCEPT !.pc = "hit_expp"]]
    /\ quiet' = [quiet EXCEPT ![wk[w].slug] = 0]
    /\ UNCHANGED <<wins, age, nres, sl>>

HitExpirePrimary(w) ==
    /\ wk[w].pc = "hit_expp"
    /\ LET s == wk[w].slug
       IN /\ db' = RedisExpire(db, keyOfSlug(s), default_ttl)
          /\ age' = IF Alive(db, s) THEN [age EXCEPT ![s] = 0] ELSE age
    /\ wk' = [wk EXCEPT ![w] = [@ EXCEPT !.pc = "done", !.res = "redirect"]]
    /\ quiet' = [quiet EXCEPT ![wk[w].slug] = 0]
    /\ UNCHANGED <<wins, nres, sl>>

(* ---------------------- GET / : sampleExisting ------------------------ *)
Scan(w, ks) ==
    /\ wk[w].pc = "idle"
    /\ ks \in ScanReplies(db)
    /\ wk' = [wk EXCEPT ![w] =
                 IF ks = <<>> THEN [Idle EXCEPT !.pc = "done", !.res = "list"]
                 ELSE [Idle EXCEPT !.pc = "gd_get", !.keys = ks]]
    /\ UNCHANGED <<db, wins, age, nres, quiet, sl>>

\* getDetailsOfKey dropping the pipeline's error, as the details view does
getDetailsOfKey_noerr(v) ==
    [err |-> FALSE, su |-> ShortUrl(v.slug, v.target, v.counter, v.ttl)]

\* what getDetailsOfKey returns once its pipeline has run
getDetailsOfKey(v) ==
    IF ~v.nil THEN [err |-> FALSE, su |-> ShortUrl(v.slug, v.target, v.counter, v.ttl)]
    ELSE [err |-> TRUE, su |-> ShortUrl(<<>>, EmptyString, 0, 0)]

GdGet(w) ==
    /\ wk[w].pc = "gd_get"
    /\ LET z == slugFromKey(Head(wk[w].keys))
           reply == RedisGet(db, keyOfSlug(z.slug))
           rest == Tail(wk[w].keys)
       IN wk' = [wk EXCEPT ![w] =
                   IF ~z.err
                   THEN [@ EXCEPT !.pc = "gd_incrby", !.slug = z.slug,
                                  !.nil = reply.nil, !.target = reply.val]
                   ELSE IF rest = <<>>
                        THEN [Idle EXCEPT !.pc = "done", !.res = "list", !.r = wk[w].r]
                        ELSE [@ EXCEPT !.keys = rest]]
    /\ UNCHANGED <<db, wins, age, nres, quiet, sl>>

\* getDetailsOfKey counting a hit, as the redirect does
GdIncrBy_counts(w) ==
    /\ wk[w].pc = "gd_incrby"
    /\ ClicksOf(db, wk[w].slug) < MaxClicks
    /\ LET reply == RedisIncrBy(db, keyOfSlugHitCount(wk[w].slug), 1)
       IN /\ db' = reply.db
          /\ wk' = [wk EXCEPT ![w] = [@ EXCEPT !.pc = "gd_ttl", !.counter = reply.val]]
    /\ UNCHANGED <<wins, age, nres, quiet, sl>>

GdIncrBy(w) ==
    /\ wk[w].pc = "gd_incrby"
    /\ LET reply == RedisIncrBy(db, keyOfSlugHitCount(wk[w].slug), 0)
       IN /\ db' = reply.db
          /\ wk' = [wk EXCEPT ![w] = [@ EXCEPT !.pc = "gd_ttl", !.counter = reply.val]]
    /\ UNCHANGED <<wins, age, nres, quiet, sl>>

\* the last command of the pipeline, the return of getDetailsOfKey and the
\* append of sampleExisting
GdTTL(w) ==
    /\ wk[w].pc = "gd_ttl"
    /\ LET v == [wk[w] EXCEPT !.ttl = RedisTTL(db, keyOfSlug(wk[w].slug))]
           ret == getDetailsOfKey(v)
           r2 == IF ret.err THEN v.r ELSE Append(v.r, ret.su)
           rest == Tail(v.keys)
       IN wk' = [wk EXCEPT ![w] =
                   IF rest = <<>>
                   THEN [Idle EXCEPT !.pc = "done", !.res = "list", !.r = r2]
                   ELSE [Idle EXCEPT !.pc = "gd_get", !.keys = rest, !.r = r2]]
    /\ UNCHANGED <<db, wins, age, nres, quiet, sl>>

\* the handler returns; the worker serves the next request
Respond(w) ==
    /\ wk[w].pc = "done"
    /\ wk' = [wk EXCEPT ![w] = Idle]
    /\ UNCHANGED <<db, wins, age, nres, quiet, sl>>

(* ------------------------------ time ---------------------------------- *)
Tick ==
    /\ db' = RedisTick(db)
    /\ wins' = [s \in Slugs |-> IF Alive(db', s) THEN wins[s] ELSE 0]
    /\ age' = [s \in Slugs |-> Min(age[s] + 1, default_ttl)]
    /\ nres' = [s \in Slugs |-> IF Alive(db', s) THEN nres[s] ELSE 0]
    /\ quiet' = [s \in Slugs |-> Min(quiet[s] + 1, default_ttl)]
    /\ UNCHANGED <<wk, sl>>

\* the requests of the workers W on the slugs S, and the clock
NextOf(W, S) ==
    \/ \E w \in W, t \in Targets : CreateRequest(w, t)
    \/ \E w \in W, s \in S, up \in BOOLEAN : StoreAttempt(w, s, up)
    \/ \E w \in W, s \in S \cup ForeignSlugs, details \in BOOLEAN : SlugGet(w, s, details)
    \/ \E w \in W : DetIncrBy(w)
    \/ \E w \in W : DetTTL(w)
    \/ \E w \in W : HitIncr(w)
    \/ \E w \in W : HitExpireCounter(w)
    \/ \E w \in W : HitExpirePrimary(w)
    \/ \E w \in W : \E ks \in ScanReplies(db) : Scan(w, ks)
    \/ \E w \in W : GdGet(w)
    \/ \E w \in W : GdIncrBy(w)
    \/ \E w \in W : GdTTL(w)
    \/ \E w \in W : Respond(w)
    \/ Tick

\* concurrent requests contending on the hot slugs
Next == NextOf(Workers, HotSlugs)

Spec == Init /\ [][Next]_vars

\* one request at a time, over all the slugs
NextSeq == NextOf({1}, Slugs)

SpecSeq == Init /\ [][NextSeq]_vars

(* ------------------- the slug functions on their own ------------------ *)
\* sampled outcomes of the length draws of rand.Intn(len(runes)): every
\* index at every position
Picks == {[i \in 1..length |-> (a + b * i) % Len(runes)] :
             a \in 0..(Len(runes) - 1), b \in 0..MaxStride}

CandChars == {"a", "Z", "0", "i", "I", "o", "O", ":"}

RECURSIVE StringsUpTo(_)
StringsUpTo(n) == IF n = 0 THEN {<<>>}
                  ELSE StringsUpTo(n - 1) \cup
                       {Append(q, c) : q \in {x \in StringsUpTo(n - 1) : Len(x) = n - 1},
                                       c \in CandChars}

Candidates == StringsUpTo(MaxCandLen)

Generate(pick) ==
    /\ sl = NoCall
    /\ sl' = [op |-> "randomSlug", pick |-> pick, slug |-> randomSlug(pick),
              valid |-> FALSE]
    /\ UNCHANGED <<db, wk, wins, age, nres, quiet>>

Validate(cand) ==
    /\ sl = NoCall
    /\ sl' = [op |-> "slugIsValid", pick |-> <<>>, slug |-> cand,
              valid |-> slugIsValid(cand)]
    /\ UNCHANGED <<db, wk, wins, age, nres, quiet>>

\* the result is dropped; the next call starts afresh
Forget ==
    /\ sl # NoCall
    /\ sl' = NoCall
    /\ UNCHANGED <<db, wk, wins, age, nres, quiet>>

NextSlug == \/ \E pick \in Picks : Generate(pick)
            \/ \E cand \in Candidates : Validate(cand)
            \/ Forget

SpecSlug == Init /\ [][NextSlug]_vars

TypeOK == /\ DOMAIN db \subseteq Keys
          /\ \A w \in Workers : wk[w].attempt \in 0..MaxAttempts

(* ---------------------------- properties ------------------------------ *)
PrimaryVal(d, s) == d[keyOfSlug(s)].val

\* worker w takes a step out of program point p
StepFrom(w, p) == wk[w].pc = p /\ wk'[w] # wk[w]

\* C1: a primary key that exists before and after a step holds the same
\* Target: no step, create included, overwrites the value of a live key.
C1_TargetKept ==
    [][\A s \in Slugs : (Alive(db, s) /\ Alive(db', s))
                          => PrimaryVal(db', s) = PrimaryVal(db, s)]_vars

\* a create of another target has collided with the live key
C1_Witness ==
    \E w \in Workers, s \in Slugs :
        /\ wk[w].pc = "store" /\ wk[w].attempt > 0 /\ ~wk[w].neterr
        /\ Alive(db, s) /\ PrimaryVal(db, s) # wk[w].target

\* C2: between two absences of its primary key a slug is returned by at most
\* one create; wins counts the creates that returned it.
C2_OneOwner == \A s \in Slugs : wins[s] <= 1 /\ (wins[s] = 1 <=> Alive(db, s))

\* one create owns the slug, another has collided on it and goes on
C2_Witness ==
    \E w1, w2 \in Workers, s \in Slugs :
        /\ wk[w1].res = "created" /\ wk[w1].slug = s /\ age[s] = 0
        /\ wk[w2].pc = "store" /\ wk[w2].attempt = 1 /\ ~wk[w2].neterr

\* C3: the k-th resolve of a slug since its creation, the slug alive, is
\* given the count k.
C3_GapFree ==
    [][\A w \in Workers :
         (StepFrom(w, "hit_incr") /\ Alive(db, wk[w].slug))
             => wk'[w].counter = nres'[wk[w].slug]]_vars

\* C4: right after a successful create an inspection of the slug reads the
\* created Target and Clicks = 0.
C4_RoundTrip ==
    [][\A w \in Workers :
         (StepFrom(w, "store") /\ wk'[w].res = "created")
             => /\ PrimaryVal(db', wk'[w].slug) = wk[w].target
                /\ ClicksOf(db', wk'[w].slug) = 0]_vars

\* C5: getDetailsOfKey fails exactly when its Get found no primary key; when
\* the key was there it returns the slug with the value read.
C5_NotFound ==
    [][\A w \in Workers :
         /\ StepFrom(w, "gd_get") => (wk'[w].nil <=> ~Alive(db, wk'[w].slug))
         /\ StepFrom(w, "gd_ttl") =>
               IF wk[w].nil THEN wk'[w].r = wk[w].r
               ELSE /\ Len(wk'[w].r) = Len(wk[w].r) + 1
                    /\ wk'[w].r[Len(wk'[w].r)].Slug = wk[w].slug
                    /\ wk'[w].r[Len(wk'[w].r)].Target = wk[w].target]_vars

\* a read of a key that expired after the scan
C5_Witness == \E w \in Workers : wk[w].pc = "gd_incrby" /\ wk[w].nil

\* C6: no step of an inspection (details view, getDetailsOfKey) changes the
\* store.
C6_ReadOnly ==
    [][\A w \in Workers :
         (\E p \in {"det_incrby", "det_ttl", "gd_get", "gd_incrby", "gd_ttl"} :
              StepFrom(w, p)) => db' = db]_vars

\* C7: a primary key is gone once default_ttl ticks have passed since its
\* creation or last refresh by a redirect, and the requests then say so.
C7_Expires ==
    [][\A s \in Slugs : age[s] >= default_ttl =>
         /\ ~Alive(db, s)
         /\ \A w \in Workers :
              /\ (StepFrom(w, "idle") /\ wk'[w].slug = s) => wk'[w].res = "notfound"
              /\ (StepFrom(w, "gd_get") /\ wk'[w].slug = s) => wk'[w].nil]_vars

\* a slug inspected in its life has expired and a request found it missing
C7_Witness ==
    \E w \in Workers, s \in Slugs :
        /\ age[s] = default_ttl /\ ~Alive(db, s)
        /\ Exists(db, keyOfSlugHitCount(s)) /\ ClicksOf(db, s) = 0
        /\ wk[w].res = "notfound" /\ wk[w].slug = s

\* C8: each Expire of a redirect leaves its key with the full default_ttl,
\* and when the redirect completes the primary key and the counter key exist.
C8_Refreshed ==
    [][\A w \in Workers :
         /\ StepFrom(w, "hit_expc") =>
               RedisTTL(db', keyOfSlugHitCount(wk[w].slug)) = default_ttl
         /\ StepFrom(w, "hit_expp") =>
               /\ RedisTTL(db', keyOfSlug(wk[w].slug)) = default_ttl
               /\ Exists(db', keyOfSlugHitCount(wk[w].slug))]_vars

\* C9: store makes at most MaxAttempts attempts; an attempt that does not
\* succeed writes nothing and is counted, and store gives up exactly at the
\* MaxAttempts-th.
C9_Exhaustion ==
    [][\A w \in Workers :
         StepFrom(w, "store") =>
            /\ wk[w].attempt < MaxAttempts
            /\ \/ wk'[w].res = "created"
               \/ /\ db' = db
                  /\ wk'[w].attempt = wk[w].attempt + 1
                  /\ wk'[w].pc = "done" <=> wk'[w].attempt = MaxAttempts
                  /\ wk'[w].pc = "done" => wk'[w].res = "exhausted"
                  /\ wk'[w].pc # "done" => wk'[w].pc = "store"]_vars

\* a create whose every attempt collided has given up
C9_Witness ==
    \E w \in Workers :
        wk[w].res = "exhausted" /\ ~wk[w].neterr /\ wk[w].attempt = MaxAttempts

\* C10: while the primary key exists the hit count read for the slug does
\* not go down.
C10_Monotone ==
    [][\A s \in Slugs : (Alive(db, s) /\ Alive(db', s))
                          => ClicksOf(db', s) >= ClicksOf(db, s)]_vars


\* C11: a transport error of SetNX ends store at once with that error: no
\* further attempt, no report of exhaustion.
C11_NoRetry ==
    [][\A w \in Workers :
         (StepFrom(w, "store") /\ ~wk[w].neterr /\ wk'[w].neterr)
             => wk'[w].pc = "done" /\ wk'[w].res = "unavailable"]_vars

\* the characters of runes, as a set
Alphabet == {runes[i] : i \in 1..Len(runes)}

HasForeign(slug) == \E i \in 1..Len(slug) : slug[i] \notin Alphabet

\* C12: a request whose slug has a character outside the alphabet is answered
\* in its first step, as invalid or unrouted, with the store untouched and no
\* command pending.
C12_RejectedFirst ==
    [][\A w \in Workers :
         (wk'[w] # wk[w] /\ HasForeign(wk'[w].slug))
             => /\ wk[w].pc = "idle" /\ wk'[w].pc = "done"
                /\ wk'[w].res \in {"invalid", "nomatch"}
                /\ db' = db]_vars

\* a routed slug with a foreign character has been refused
C12_Witness ==
    \E w \in Workers : wk[w].res = "invalid" /\ wk[w].slug = <<"a", "O">>

\* C15 (as claimed): a generated slug has 8 characters, all of the alphabet,
\* which has 61 symbols and none of i, I, o, O.
C15_Alphabet61 ==
    sl.op = "randomSlug" =>
        /\ Len(sl.slug) = 8
        /\ \A i \in 1..Len(sl.slug) : sl.slug[i] \in Alphabet
        /\ Cardinality(Alphabet) = 61
        /\ Alphabet \cap {"i", "I", "o", "O"} = {}

\* C15 (amended): the same with the 58 symbols runes has.
C15_Alphabet58 ==
    sl.op = "randomSlug" =>
        /\ Len(sl.slug) = 8
        /\ \A i \in 1..Len(sl.slug) : sl.slug[i] \in Alphabet
        /\ Cardinality(Alphabet) = 58
        /\ Alphabet \cap {"i", "I", "o", "O"} = {}

\* a slug generated from the last rune on
C15_Witness == sl.op = "randomSlug" /\ sl.slug[1] = "0" /\ sl.slug[2] # "0"

\* C16: slugIsValid accepts exactly the strings made of alphabet characters:
\* the separator and i, I, o, O are refused, the length is not looked at.
C16_CharsOnly ==
    sl.op = "slugIsValid" =>
        /\ sl.valid <=> \A i \in 1..Len(sl.slug) : sl.slug[i] \in Alphabet
        /\ (\E i \in 1..Len(sl.slug) : sl.slug[i] \in {":", "i", "I", "o", "O"})
              => ~sl.valid
        /\ sl.slug = <<>> => sl.valid

\* a two-character string of the alphabet has been accepted
C16_Witness == sl.op = "slugIsValid" /\ Len(sl.slug) = 2 /\ sl.valid

Quiescent == \A w \in Workers : wk[w].pc \in {"idle", "done"}

\* C13: with no request in progress, a slug whose primary key and counter
\* key both exist has the same remaining TTL on both.
C13_SameTTL ==
    Quiescent =>
        \A s \in Slugs :
            (Alive(db, s) /\ Exists(db, keyOfSlugHitCount(s)))
                => RedisTTL(db, keyOfSlug(s)) = RedisTTL(db, keyOfSlugHitCount(s))

\* a redirect of slug s is between its Get and its last Expire
Redirecting(s) ==
    \E w \in Workers :
        wk[w].slug = s /\ wk[w].pc \in {"hit_incr", "hit_expc", "hit_expp"}

\* C14: once default_ttl ticks have passed with no create and no step of a
\* redirect of a slug, and no redirect of it is pending, neither its primary
\* key nor its counter key exists.
C14_Purged ==
    \A s \in Slugs :
        (quiet[s] >= default_ttl /\ ~Redirecting(s))
            => ~Alive(db, s) /\ ~Exists(db, keyOfSlugHitCount(s))

\* C17: the counter read of an inspection returns the counter key's value,
\* 0 when the key is absent, and a record returned by getDetailsOfKey
\* carries that number as Clicks.
C17_ClicksRead ==
    [][\A w \in Workers :
         /\ (StepFrom(w, "gd_incrby") \/ StepFrom(w, "det_incrby"))
               => wk'[w].counter = ClicksOf(db, wk[w].slug)
         /\ (StepFrom(w, "gd_ttl") /\ ~wk[w].nil)
               => /\ Len(wk'[w].r) = Len(wk[w].r) + 1
                  /\ wk'[w].r[Len(wk'[w].r)].Clicks = wk[w].counter]_vars

\* a live record has been read with Clicks = 0
C17_Witness ==
    \E w \in Workers :
        /\ wk[w].res = "list" /\ Len(wk[w].r) = 1
        /\ wk[w].r[1].Clicks = 0 /\ wk[w].r[1].Target # EmptyString

\* C18: sampleExisting goes through every key of the scan: a key whose read
\* fails adds nothing, a key read adds one record, no record has an empty
\* Target, and the scan of a store without primary keys returns the empty
\* list.
C18_Skips ==
    [][\A w \in Workers :
         /\ StepFrom(w, "gd_ttl") =>
               /\ wk'[w].r = IF wk[w].nil THEN wk[w].r
                              ELSE Append(wk[w].r, wk'[w].r[Len(wk'[w].r)])
               /\ \A i \in 1..Len(wk'[w].r) : wk'[w].r[i].Target # EmptyString
               /\ IF Len(wk[w].keys) > 1
                  THEN wk'[w].pc = "gd_get" /\ wk'[w].keys = Tail(wk[w].keys)
                  ELSE wk'[w].pc = "done" /\ wk'[w].res = "list"
         /\ (StepFrom(w, "idle") /\ RedisScan(db) = {}
                /\ wk'[w].pc # "store" /\ wk'[w].slug = <<>>)
               => wk'[w].pc = "done" /\ wk'[w].res = "list" /\ wk'[w].r = <<>>]_vars

\* the read of a key that is gone, with another key still to read
C18_Witness ==
    \E w \in Workers : wk[w].pc = "gd_ttl" /\ wk[w].nil /\ Len(wk[w].keys) = 2

\* C19: a slug request that ends NotFound has changed nothing in the store.
C19_NotFoundFrame ==
    [][\A w \in Workers :
         (StepFrom(w, "idle") /\ wk'[w].res = "notfound")
             => db' = db /\ wk'[w].pc = "done"]_vars

\* a slug that was never created has been asked for
C19_Witness ==
    \E w \in Workers, s \in Slugs :
        /\ wk[w].res = "notfound" /\ wk[w].slug = s
        /\ ~Alive(db, s) /\ ~Exists(db, keyOfSlugHitCount(s))

\* C20: the attempt of store that succeeds adds the primary key of the
\* returned slug, with the target and default_ttl, and changes no other key;
\* an attempt that fails changes nothing.
C20_OneKey ==
    [][\A w \in Workers :
         StepFrom(w, "store") =>
            IF wk'[w].res = "created"
            THEN LET k == keyOfSlug(wk'[w].slug)
                 IN /\ k \notin DOMAIN db
                    /\ DOMAIN db' = DOMAIN db \cup {k}
                    /\ db'[k] = [val |-> wk[w].target, ttl |-> default_ttl]
                    /\ \A x \in DOMAIN db : db'[x] = db[x]
            ELSE db' = db]_vars

\* a create has succeeded next to the keys of another slug
C20_Witness ==
    \E w \in Workers, s \in Slugs :
        /\ wk[w].res = "created" /\ wk[w].slug # s
        /\ Alive(db, s) /\ Exists(db, keyOfSlugHitCount(s))
        /\ ~Exists(db, keyOfSlugHitCount(wk[w].slug))

====
